---- MODULE Spec2Model ----
(***************************************************************************)
(* Client-side synchronisation and control logic of the trading-bot web    *)
(* frontend: the Dashboard page (status/activity polling, opportunities    *)
(* fetch, start/stop toggle), the onboarding StrategySelect page and the   *)
(* Settings page (load, draft mutations, save).                            *)
(*                                                                         *)
(* Execution is single-threaded and event-driven: every action below is    *)
(* one event-loop task (an effect, a timer tick, a click, or the arrival   *)
(* of an HTTP response together with the promise continuation it wakes).   *)
(***************************************************************************)
EXTENDS Integers, Sequences, FiniteSets, TLC

\* ------------------------------------------------------------------ bounds
MaxCalls == 3       \* fetchData invocations in one behaviour
MaxPattern == 2     \* period of the Math.random() sequences tried
MaxCmds == 1        \* start/stop commands issued from the Dashboard

\* ------------------------------------------------------- domain of values
\* types: BotStatus = 'stopped' | 'running' | 'scanning'
BotStatus == {"stopped", "running", "scanning"}

\* useState<StatusResponse | null>(null): the null status
NULL == "null"

\* STRATEGY_PRESETS ids
Presets == {"safe", "balanced", "aggressive"}

\* Activity lists the server may return (entry types, in received order)
ActivityLists == {<<"scan">>, <<"trade", "info">>}

\* Opportunity lists the server may return
OppLists == {<< >>, <<"o1">>}

\* A fetchData call with a response outstanding: its two requests, each
\* "pending", "ok" or "fail".  The payload of a response is read by nobody
\* before the joined promise settles, so it is drawn in the step that
\* settles it.
NewCall(id, origin) ==
    [id |-> id, origin |-> origin, st |-> "pending", act |-> "pending"]

Outcome(ok) == IF ok THEN "ok" ELSE "fail"

VARIABLES
    route,          \* current page of the router
    selected,       \* StrategySelect: the selected preset id
    status,         \* Dashboard: status state (bot_status, or NULL)
    activity,       \* Dashboard: activity state
    loading,        \* Dashboard: loading state
    opportunities,  \* Dashboard: opportunities state
    oppsLoading,    \* Dashboard: oppsLoading state
    oppsReq,        \* Dashboard: getOpportunities request in flight
    phase,          \* Dashboard effect: "init", "mounted", "unmounted"
    interval,       \* Dashboard: the setInterval handle is active
    calls,          \* fetchData invocations with a response outstanding
    issued,         \* origins of all fetchData invocations, in order
    ticks,          \* number of interval ticks fired
    cmds,           \* start/stop commands sent, in order
    cmdPending,     \* indexes of cmds whose response is outstanding
    last,           \* the poll round that the latest step ended, if any
    settingsLoading,\* Settings: loading state
    saving,         \* Settings: saving state
    settings,       \* Settings: settings state (the draft)
    loadState,      \* Settings: getSettings request ("none", "pending", "ok", "fail")
    saveReqs,       \* Settings: bodies of the updateSettings requests in flight
    saveState,      \* Settings: the latest save ("none", "pending", "ok", "fail")
    loaded,         \* Settings: the data getSettings resolved with, or NULL
    edited,         \* Settings: an input's onChange has run since the page opened
    riskValue,      \* Settings: the value getRiskLabel is called with (hundredths)
    riskLabel,      \* Settings: the risk label rendered, or NULL
    opp,            \* TopOpportunities: the opportunity of a row
    shownReturn,    \* TopOpportunities: the return text rendered for opp, or NULL
    chartValue,     \* PortfolioChart: portfolio.total_value, in thousandths
    chartDraws,     \* PortfolioChart: the Math.random() results, in thousandths
    chartData       \* PortfolioChart: the series rendered (<< >>: none yet)

vars == <<route, selected, status, activity, loading,
          opportunities, oppsLoading, oppsReq, phase, interval, calls,
          issued, ticks, cmds, cmdPending, last, settingsLoading, saving,
          settings, loadState, saveReqs, saveState, loaded, edited,
          riskValue, riskLabel, opp, shownReturn, chartValue, chartDraws,
          chartData>>

snapshotVars == <<status, activity, loading>>
oppsVars == <<opportunities, oppsLoading, oppsReq>>
pollVars == <<calls, issued>>
cmdVars == <<cmds, cmdPending>>
dashboardVars == <<selected, status, activity, loading, opportunities,
                   oppsLoading, oppsReq, phase, interval, calls, issued,
                   ticks, cmds, cmdPending, last>>
renderVars == <<riskValue, riskLabel, opp, shownReturn, chartValue, chartDraws,
                chartData>>
settingsVars == <<settingsLoading, saving, settings, loadState, saveReqs,
                  saveState, loaded, edited>>

\* ------------------------------------------------------ Settings: the values
\* types: StrategyType = 'fullset' | 'endgame' | 'oracle' | 'rewards'
StrategyType == {"fullset", "endgame", "oracle", "rewards"}

\* risk_appetite is held in hundredths: the slider's v stands for v / 100
\* useState({...}): the draft a Settings page is constructed with
DefaultSettings ==
    [risk_appetite |-> 50,
     strategies_enabled |-> [k \in StrategyType |-> k # "oracle"],
     max_capital |-> 1000]

\* Settings the server may return from GET /settings
ServerSettings ==
    {[risk_appetite |-> 30,
      strategies_enabled |-> [k \in StrategyType |-> k = "endgame"],
      max_capital |-> 500],
     DefaultSettings}

\* Values the risk slider may report (min 0, max 100, step 1)
SliderValues == {20, 66}

\* Texts the max-capital input may hold
CapitalTexts == {"", "250", "-5"}

\* parseFloat(text): a number, or NaN
ParseFloat(text) ==
    IF text = "250" THEN [nan |-> FALSE, value |-> 250]
    ELSE IF text = "-5" THEN [nan |-> FALSE, value |-> 0 - 5]
    ELSE [nan |-> TRUE, value |-> 0]

\* x || 0 for a number x: 0 when x is NaN or 0
OrZero(x) == IF x.nan \/ x.value = 0 THEN 0 ELSE x.value

\* ------------------------------------------------------------ event record
\* The event record of a step that ends no poll round
NoRound == [round |-> "none", bot |-> NULL, log |-> << >>]

\* How the poll round of fetchData call c1 has ended ("open" while a response
\* is outstanding)
RoundOf(c1) ==
    IF c1.st = "pending" \/ c1.act = "pending" THEN "open"
    ELSE IF c1.st = "ok" /\ c1.act = "ok" THEN "both_ok"
    ELSE IF c1.st = "fail" /\ c1.act = "ok" THEN "status_failed"
    ELSE IF c1.st = "ok" /\ c1.act = "fail" THEN "activity_failed"
    ELSE "both_failed"

\* The event of a response to fetchData call c1 (c1 is the call after the
\* response was recorded): once the round has ended, how it ended and the
\* payloads (bot, log) of those of its two responses that succeeded
ResponseEvent(c1, bot, log) ==
    IF RoundOf(c1) = "open"
    THEN NoRound
    ELSE [round |-> RoundOf(c1),
          bot |-> IF c1.st = "ok" THEN bot ELSE NULL,
          log |-> IF c1.act = "ok" THEN log ELSE << >>]

\* ------------------------------------------------------------------- Init
\* Every page as constructed: the useState initial values, nothing sent
Constructed ==
    /\ selected = "balanced"
    /\ status = NULL
    /\ activity = << >>
    /\ loading = TRUE
    /\ opportunities = << >>
    /\ oppsLoading = FALSE
    /\ oppsReq = FALSE
    /\ phase = "init"
    /\ interval = FALSE
    /\ calls = {}
    /\ issued = << >>
    /\ ticks = 0
    /\ cmds = << >>
    /\ cmdPending = {}
    /\ last = NoRound
    /\ settingsLoading = TRUE
    /\ saving = FALSE
    /\ settings = DefaultSettings
    /\ loadState = "none"
    /\ saveReqs = << >>
    /\ saveState = "none"
    /\ loaded = NULL
    /\ edited = FALSE

\* No widget input is fixed and nothing is rendered yet
NotRendered ==
    /\ riskValue = 0
    /\ riskLabel = NULL
    /\ opp = NULL
    /\ shownReturn = NULL
    /\ chartValue = 0
    /\ chartDraws = << >>
    /\ chartData = << >>

Init ==
    /\ route = "/dashboard"
    /\ Constructed
    /\ NotRendered

\* ------------------------------------------------- Welcome / StrategySelect
\* Welcome: "Get Started" -> navigate('/onboard/strategy')
GetStarted ==
    /\ route = "/"
    /\ route' = "/onboard/strategy"
    /\ last' = NoRound
    /\ UNCHANGED <<renderVars,
                   settingsVars, selected, snapshotVars, oppsVars, phase, interval,
                   pollVars, ticks, cmdVars>>

\* Welcome: "Skip to Dashboard", StrategySelect: "Skip Setup"
SkipToDashboard ==
    /\ route \in {"/", "/onboard/strategy"}
    /\ route' = "/dashboard"
    /\ last' = NoRound
    /\ UNCHANGED <<renderVars,
                   settingsVars, selected, snapshotVars, oppsVars, phase, interval,
                   pollVars, ticks, cmdVars>>

\* StrategySelect: onClick={() => setSelected(preset.id)}
SetSelected(p) ==
    /\ route = "/onboard/strategy"
    /\ selected' = p
    /\ last' = NoRound
    /\ UNCHANGED <<renderVars,
                   settingsVars, route, snapshotVars, oppsVars, phase,
                   interval, pollVars, ticks, cmdVars>>

\* ---------------------------------------------------------------- Dashboard
Snap == [status |-> status, activity |-> activity, loading |-> loading]

\* Promise.all([getBotStatus(), getActivityLog(20)]): rejected as soon as one
\* half has failed, fulfilled once both halves have succeeded
JoinState(c) ==
    IF c.st = "fail" \/ c.act = "fail" THEN "rejected"
    ELSE IF c.st = "ok" /\ c.act = "ok" THEN "fulfilled"
    ELSE "pending"

\* fetchData after its await, for a call whose record changes from c0 to c1
\* by the arrival of one response: the state it leaves, given the state snap
\* and the payloads bot (of getBotStatus) and log (of getActivityLog)
FetchDataContinuationClearsOnFailure(c0, c1, bot, log, snap) ==
    IF JoinState(c0) # "pending" THEN snap
    ELSE IF JoinState(c1) = "fulfilled"
         THEN [status |-> bot, activity |-> log, loading |-> FALSE]
    ELSE IF JoinState(c1) = "rejected"
         THEN [status |-> NULL, activity |-> << >>, loading |-> FALSE]
    ELSE snap

FetchDataContinuationSettled(c0, c1, bot, log, snap) ==
    IF RoundOf(c1) = "activity_failed"
    THEN [status |-> bot, activity |-> snap.activity, loading |-> FALSE]
    ELSE IF JoinState(c0) # "pending" THEN snap
    ELSE IF JoinState(c1) = "fulfilled"
         THEN [status |-> bot, activity |-> log, loading |-> FALSE]
    ELSE IF JoinState(c1) = "rejected"
         THEN [snap EXCEPT !.loading = FALSE]
    ELSE snap

FetchDataContinuationNewestOnly(c0, c1, bot, log, snap) ==
    IF JoinState(c0) # "pending" THEN snap
    ELSE IF JoinState(c1) = "fulfilled"
         THEN IF c1.id = Len(issued)
              THEN [status |-> bot, activity |-> log, loading |-> FALSE]
              ELSE [snap EXCEPT !.loading = FALSE]
    ELSE IF JoinState(c1) = "rejected"
         THEN [snap EXCEPT !.loading = FALSE]
    ELSE snap

FetchDataContinuation(c0, c1, bot, log, snap) ==
    IF JoinState(c0) # "pending" THEN snap
    ELSE IF JoinState(c1) = "fulfilled"
         THEN [status |-> bot, activity |-> log, loading |-> FALSE]
    ELSE IF JoinState(c1) = "rejected"
         THEN [snap EXCEPT !.loading = FALSE]
    ELSE snap

\* fetchData up to its await: both requests are sent
IssueFetch(origin) ==
    /\ calls' = calls \cup {NewCall(Len(issued) + 1, origin)}
    /\ issued' = Append(issued, origin)

\* The Dashboard effect: fetchData(); fetchOpportunities(); setInterval(...)
EffectMount ==
    /\ route = "/dashboard"
    /\ phase = "init"
    /\ phase' = "mounted"
    /\ IssueFetch("mount")
    /\ oppsLoading' = TRUE
    /\ oppsReq' = TRUE
    /\ interval' = TRUE
    /\ last' = NoRound
    /\ UNCHANGED <<renderVars,
                   settingsVars, route, selected, snapshotVars, opportunities, ticks,
                   cmdVars>>

\* setInterval(fetchData, 10000): one tick
Tick ==
    /\ interval
    /\ Len(issued) < MaxCalls
    /\ ticks' = ticks + 1
    /\ IssueFetch("timer")
    /\ last' = NoRound
    /\ UNCHANGED <<renderVars,
                   settingsVars, route, selected, snapshotVars, oppsVars, phase,
                   interval, cmdVars>>

\* The effect's cleanup, run when the Dashboard is torn down (here by
\* navigate('/settings')): clearInterval(interval)
CleanupKeepsInterval ==
    /\ phase = "mounted"
    /\ phase' = "unmounted"
    /\ route' = "/settings"
    /\ last' = NoRound
    /\ UNCHANGED <<renderVars,
                   settingsVars, selected, snapshotVars, oppsVars, interval, pollVars,
                   ticks, cmdVars>>

Cleanup ==
    /\ phase = "mounted"
    /\ phase' = "unmounted"
    /\ interval' = FALSE
    /\ route' = "/settings"
    /\ last' = NoRound
    /\ UNCHANGED <<renderVars,
                   settingsVars, selected, snapshotVars, oppsVars, pollVars, ticks,
                   cmdVars>>

\* A response to one request of call c has arrived, making its record c1;
\* bot and log are the payloads of the call's two responses
Respond(c, c1, bot, log) ==
    LET new == FetchDataContinuation(c, c1, bot, log, Snap)
    IN /\ status' = new.status
       /\ activity' = new.activity
       /\ loading' = new.loading
       /\ calls' = IF RoundOf(c1) = "open"
                   THEN (calls \ {c}) \cup {c1}
                   ELSE calls \ {c}
       /\ last' = ResponseEvent(c1, bot, log)
       /\ UNCHANGED <<renderVars,
                      settingsVars, route, selected, oppsVars, phase, interval, issued,
                      ticks, cmdVars>>

\* Arrival of the response to getBotStatus() of call c
StatusResponse(c, ok, bot, log) ==
    /\ c \in calls
    /\ c.st = "pending"
    /\ Respond(c, [c EXCEPT !.st = Outcome(ok)], bot, log)

\* Arrival of the response to getActivityLog(20) of call c
ActivityResponse(c, ok, bot, log) ==
    /\ c \in calls
    /\ c.act = "pending"
    /\ Respond(c, [c EXCEPT !.act = Outcome(ok)], bot, log)

\* fetchOpportunities after its await: setOpportunities(opps) on success,
\* console.error on failure, setOppsLoading(false) in both cases
OppsResponse(ok, opps) ==
    /\ oppsReq
    /\ oppsReq' = FALSE
    /\ opportunities' = IF ok THEN opps ELSE opportunities
    /\ oppsLoading' = FALSE
    /\ last' = NoRound
    /\ UNCHANGED <<renderVars,
                   settingsVars, route, selected, snapshotVars, phase, interval,
                   pollVars, ticks, cmdVars>>

\* handleStartStop: the command chosen from the held status
Command(st) ==
    IF st \in {"running", "scanning"}
    THEN [op |-> "stop", preset |-> "none"]
    ELSE [op |-> "start", preset |-> "balanced"]

\* handleStartStop up to its await.  The button exists only in the main
\* render, i.e. when the Dashboard is mounted and !(loading || !status).
HandleStartStopOptimistic ==
    /\ phase = "mounted"
    /\ ~loading
    /\ status # NULL
    /\ Len(cmds) < MaxCmds
    /\ cmds' = Append(cmds, Command(status))
    /\ cmdPending' = cmdPending \cup {Len(cmds) + 1}
    /\ status' = IF Command(status).op = "stop" THEN "stopped" ELSE "running"
    /\ last' = NoRound
    /\ UNCHANGED <<renderVars,
                   settingsVars, route, selected, activity, loading, oppsVars, phase,
                   interval, pollVars, ticks>>

HandleStartStop ==
    /\ phase = "mounted"
    /\ ~loading
    /\ status # NULL
    /\ Len(cmds) < MaxCmds
    /\ cmds' = Append(cmds, Command(status))
    /\ cmdPending' = cmdPending \cup {Len(cmds) + 1}
    /\ last' = NoRound
    /\ UNCHANGED <<renderVars,
                   settingsVars, route, selected, snapshotVars, oppsVars, phase,
                   interval, pollVars, ticks>>

\* handleStartStop after its await, command k succeeded: fetchData()
CommandOk(k) ==
    /\ k \in cmdPending
    /\ Len(issued) < MaxCalls
    /\ cmdPending' = cmdPending \ {k}
    /\ IssueFetch("refresh")
    /\ last' = NoRound
    /\ UNCHANGED <<renderVars,
                   settingsVars, route, selected, snapshotVars, oppsVars, phase,
                   interval, ticks, cmds>>

\* handleStartStop after its await with a catch block that ends the polling
CommandFailStopsPolling(k) ==
    /\ k \in cmdPending
    /\ cmdPending' = cmdPending \ {k}
    /\ interval' = FALSE
    /\ last' = NoRound
    /\ UNCHANGED <<renderVars, settingsVars, route, selected, snapshotVars,
                   oppsVars, phase, pollVars, ticks, cmds>>

\* handleStartStop after its await, command k failed: the catch block logs
CommandFail(k) ==
    /\ k \in cmdPending
    /\ cmdPending' = cmdPending \ {k}
    /\ last' = NoRound
    /\ UNCHANGED <<renderVars,
                   settingsVars, route, selected, snapshotVars, oppsVars, phase,
                   interval, pollVars, ticks, cmds>>

\* ------------------------------------------------------------------- Next
SelectPreset == \E p \in Presets : SetSelected(p)
\* The payloads a response step can draw: those of the call's responses
\* that have succeeded once the step is taken
BotPayloads(st) == IF st = "ok" THEN BotStatus ELSE {NULL}
LogPayloads(act) == IF act = "ok" THEN ActivityLists ELSE {<< >>}

StatusAnswered ==
    \E c \in calls, ok \in BOOLEAN :
        \E bot \in BotPayloads(IF c.act = "pending" THEN "pending" ELSE Outcome(ok)),
           log \in LogPayloads(c.act) :
            StatusResponse(c, ok, bot, log)
ActivityAnswered ==
    \E c \in calls, ok \in BOOLEAN :
        \E bot \in BotPayloads(c.st),
           log \in LogPayloads(IF c.st = "pending" THEN "pending" ELSE Outcome(ok)) :
            ActivityResponse(c, ok, bot, log)
OppsAnswered == \E ok \in BOOLEAN, opps \in OppLists : OppsResponse(ok, opps)
CommandSucceeded == \E k \in cmdPending : CommandOk(k)
CommandFailed == \E k \in cmdPending : CommandFail(k)

\* The Dashboard page, opened at /dashboard
Next ==
    \/ EffectMount
    \/ Tick
    \/ Cleanup
    \/ StatusAnswered
    \/ ActivityAnswered
    \/ OppsAnswered
    \/ HandleStartStop
    \/ CommandSucceeded
    \/ CommandFailed

Spec == Init /\ [][Next]_vars

\* The application opened at /, the Dashboard reached through the Welcome and
\* StrategySelect pages
OnboardInit ==
    /\ route = "/"
    /\ Constructed
    /\ NotRendered

OnboardNext ==
    \/ GetStarted
    \/ SkipToDashboard
    \/ SelectPreset
    \/ EffectMount
    \/ Tick
    \/ Cleanup
    \/ StatusAnswered
    \/ ActivityAnswered
    \/ HandleStartStop
    \/ CommandSucceeded
    \/ CommandFailed

OnboardSpec == OnboardInit /\ [][OnboardNext]_vars

\* ========================================================== Dashboard claims
\* A fetchData call whose joined promise has not settled
InFlight(c) == JoinState(c) = "pending"

\* The number of fetchData invocations of the given origin
Issued(origin) == Cardinality({i \in 1..Len(issued) : issued[i] = origin})

\* The step delivers a response of call c that is, or follows, a failure of
\* one of the call's two requests
FailedResponseStep(c) ==
    /\ c \in calls
    /\ c \notin calls'
    /\ \/ \E c1 \in calls' : c1.id = c.id /\ JoinState(c1) = "rejected"
       \/ /\ \A c1 \in calls' : c1.id # c.id
          /\ last'.round \in {"status_failed", "activity_failed", "both_failed"}

\* C1: when only the status fetch of a poll round fails, the snapshot
\* afterwards holds the previous status and the newly fetched activity list;
\* symmetrically when only the activity fetch fails; a round in which both
\* succeed replaces both halves.
C1_FailureIsolation ==
    [][/\ last'.round = "status_failed"
          => status' = status /\ activity' = last'.log
       /\ last'.round = "activity_failed"
          => status' = last'.bot /\ activity' = activity
       /\ last'.round = "both_ok"
          => status' = last'.bot /\ activity' = last'.log]_vars

\* C2: a failed poll never clears displayed data: no step that delivers a
\* failed response, or a response of a poll that has failed, changes the
\* held status or the held activity list; each is what it was before (a
\* status held is never set to null, a list held is never emptied).
C2_FailureKeepsSnapshot ==
    [][\A c \in calls :
          FailedResponseStep(c)
          => status' = status /\ activity' = activity]_vars

\* C2 witness: a poll round has just ended in failure while a status and a
\* non-empty activity list are held.
C2_Witness ==
    /\ last.round \in {"status_failed", "activity_failed", "both_failed"}
    /\ status # NULL
    /\ activity # << >>

\* C3: after the effect's cleanup no response changes status, activity or
\* loading.
C3_NoApplyAfterStop ==
    [][phase = "unmounted" => UNCHANGED <<status, activity, loading>>]_vars

\* C4: at most one timer-issued poll is in flight.
C4_OneTimerPollInFlight ==
    Cardinality({c \in calls : c.origin = "timer" /\ InFlight(c)}) <= 1

\* C5: the effect issues one fetch at once, before any tick; every tick
\* issues one more; after the cleanup no tick issues a fetch.
C5_PollSchedule ==
    /\ [](phase = "init" => issued = << >> /\ ticks = 0)
    /\ [](phase # "init" => Len(issued) >= 1 /\ issued[1] = "mount"
                            /\ Issued("mount") = 1)
    /\ [](Issued("timer") = ticks)
    /\ [][phase = "unmounted" => ticks' = ticks /\ Issued("timer")' = Issued("timer")]_vars

\* C5 witness: ticks have fired before the cleanup, none after it.
C5_Witness ==
    /\ phase = "unmounted"
    /\ ticks = 2
    /\ issued = <<"mount", "timer", "timer">>

\* C6: every completion of a start/stop command, success or failure, is
\* followed at once by a refresh (a fetchData call).
C6_RefreshAfterCommand ==
    [][cmdPending' # cmdPending /\ cmds' = cmds
       => issued' = Append(issued, "refresh")]_vars

\* The command a toggle is to issue for a held status and a selected preset
Expected(st, preset) ==
    IF st \in {"running", "scanning"}
    THEN [op |-> "stop", preset |-> "none"]
    ELSE [op |-> "start", preset |-> preset]

\* C7: a toggle issues exactly one command: stop when the held status is
\* running or scanning, otherwise start carrying the selected preset.
C7_ToggleSelectedPreset ==
    [][cmds' # cmds => cmds' = Append(cmds, Expected(status, selected))]_vars

\* C8: issuing a command and receiving its response leave the held status
\* unchanged; the status changes only in a step that applies a successful
\* poll, and then to the value that response carries.
C8_NoOptimisticState ==
    [][/\ (cmds' # cmds \/ cmdPending' # cmdPending) => status' = status
       /\ status' # status => last'.round = "both_ok" /\ status' = last'.bot]_vars

\* C8 witness: a stop command has been answered and the held status is still
\* the one the last poll showed.
C8_Witness ==
    /\ cmds = <<[op |-> "stop", preset |-> "none"]>>
    /\ cmdPending = {}
    /\ status \in {"running", "scanning"}

\* C15: the opportunity feed goes from Idle to Loading at fetch and leaves
\* Loading when the response arrives, to Loaded(list) on success or to
\* Errored on failure; the Errored outcome is distinguishable from Loaded
\* with an empty list: no step is both the arrival of a failure and the
\* arrival of a successful empty list.
C15_FeedStateMachine ==
    [][/\ (~oppsReq /\ oppsReq') => (~oppsLoading /\ oppsLoading')
       /\ (oppsReq /\ ~oppsReq') => (oppsLoading /\ ~oppsLoading')
       /\ \A opps \in OppLists :
             OppsResponse(TRUE, opps) => opportunities' = opps
       /\ OppsResponse(FALSE, << >>) => ~OppsResponse(TRUE, << >>)]_vars

\* C19: no fetch or command failure stops the poll loop: the interval is
\* ended by the cleanup only, and while it runs a tick can fire (and issues
\* a poll); and the poll that then succeeds sets the held status and
\* activity to that poll's results.
C19_SelfHealing ==
    /\ [][(interval /\ ~interval') => (phase = "mounted" /\ phase' = "unmounted")]_vars
    /\ []((interval /\ Len(issued) < MaxCalls) => ENABLED Tick)
    /\ [][ticks' # ticks => issued' = Append(issued, "timer")]_vars
    /\ [][last'.round = "both_ok" /\ interval
          => status' = last'.bot /\ activity' = last'.log]_vars

\* C19 witness: a command has failed (it is answered and no refresh was
\* issued), a timer poll has failed (its second response is outstanding),
\* the interval is still running, and another poll has just succeeded and
\* is what the Dashboard holds.
C19_Witness ==
    /\ interval
    /\ issued = <<"mount", "timer", "timer">>
    /\ cmds # << >>
    /\ cmdPending = {}
    /\ \E c \in calls : c.id = 2 /\ JoinState(c) = "rejected"
    /\ last.round = "both_ok"
    /\ status = last.bot
    /\ activity = last.log

\* C20: last completion wins: a poll round that completes with success sets
\* the held status and activity to its results, whichever request was issued
\* first and whatever is still in flight, and no other step changes them; so
\* once a refresh and a timer poll have both completed the Dashboard holds
\* the results of the one that completed last.
C20_LastCompletionWins ==
    [][/\ last'.round = "both_ok"
          => status' = last'.bot /\ activity' = last'.log
       /\ last'.round # "both_ok"
          => status' = status /\ activity' = activity]_vars

\* C20 witness: a timer poll and the refresh issued after it were in flight
\* together; the refresh has just completed with success and is what the
\* Dashboard holds, while the older timer poll is still in flight.
C20_Witness ==
    /\ issued = <<"mount", "timer", "refresh">>
    /\ \E c \in calls : c.origin = "timer" /\ InFlight(c)
    /\ \A c \in calls : c.origin = "timer"
    /\ last.round = "both_ok"
    /\ status = last.bot
    /\ activity = last.log

\* C21: the held status and the held activity list are written by the same
\* poll round: while the status is its initial null the list is its
\* initial empty list, and a step that changes either is the completion of one
\* fetchData call whose two responses it writes, status and activity alike.
C21_PairedUpdate ==
    /\ [](status = NULL => activity = << >>)
    /\ [][(status' # status \/ activity' # activity)
          => /\ \E c \in calls :
                  /\ c \notin calls'
                  /\ \A c1 \in calls' : c1.id # c.id
                  /\ \/ c.st = "ok" /\ c.act = "pending"
                     \/ c.st = "pending" /\ c.act = "ok"
             /\ last'.round = "both_ok"
             /\ status' = last'.bot
             /\ activity' = last'.log]_vars

\* C21 witness: of the mount poll and one timer poll, both completed, the
\* one that completed last has just written the status and the list held.
C21_Witness ==
    /\ issued = <<"mount", "timer">>
    /\ calls = {}
    /\ cmds = << >>
    /\ last.round = "both_ok"
    /\ status = "scanning"
    /\ activity = <<"trade", "info">>
    /\ status = last.bot
    /\ activity = last.log

\* ================================================================== Settings
\* The form rendered without the loading gate
EditableWhileLoading == route = "/settings"

\* The form is rendered (the loading gate has passed) and can be used
Editable == route = "/settings" /\ ~settingsLoading

\* The Settings effect: loadSettings() up to its await
LoadSettings ==
    /\ route = "/settings"
    /\ loadState = "none"
    /\ loadState' = "pending"
    /\ UNCHANGED <<renderVars,
                   route, dashboardVars, settingsLoading, saving, settings,
                   saveReqs, saveState, loaded, edited>>

\* loadSettings after its await: setSettings(...) on success, console.error
\* on failure, setLoading(false) in both cases
LoadResponse(ok, data) ==
    /\ loadState = "pending"
    /\ loadState' = Outcome(ok)
    /\ settings' = IF ok
                   THEN [risk_appetite |-> data.risk_appetite,
                         strategies_enabled |-> data.strategies_enabled,
                         max_capital |-> data.max_capital]
                   ELSE settings
    /\ settingsLoading' = FALSE
    /\ loaded' = IF ok THEN data ELSE loaded
    /\ UNCHANGED <<renderVars,
                   route, dashboardVars, saving, saveReqs, saveState, edited>>

\* Slider onChange: setSettings((s) => ({ ...s, risk_appetite: v / 100 }))
SetRiskAppetite(v) ==
    /\ Editable
    /\ settings' = [settings EXCEPT !.risk_appetite = v]
    /\ edited' = TRUE
    /\ UNCHANGED <<renderVars,
                   route, dashboardVars, settingsLoading, saving, loadState,
                   saveReqs, saveState, loaded>>

\* Toggle onChange without the spread of the other flags
SetStrategyEnabledNoSpread(key, checked) ==
    /\ Editable
    /\ settings' = [settings EXCEPT !.strategies_enabled =
                        [k \in StrategyType |-> k = key /\ checked]]
    /\ edited' = TRUE
    /\ UNCHANGED <<renderVars,
                   route, dashboardVars, settingsLoading, saving, loadState,
                   saveReqs, saveState, loaded>>

\* Toggle onChange: strategies_enabled: { ...s.strategies_enabled, [key]: checked }
SetStrategyEnabled(key, checked) ==
    /\ Editable
    /\ settings' = [settings EXCEPT !.strategies_enabled[key] = checked]
    /\ edited' = TRUE
    /\ UNCHANGED <<renderVars,
                   route, dashboardVars, settingsLoading, saving, loadState,
                   saveReqs, saveState, loaded>>

\* input onChange: max_capital: parseFloat(e.target.value) || 0
SetMaxCapital(text) ==
    /\ Editable
    /\ settings' = [settings EXCEPT !.max_capital = OrZero(ParseFloat(text))]
    /\ edited' = TRUE
    /\ UNCHANGED <<renderVars,
                   route, dashboardVars, settingsLoading, saving, loadState,
                   saveReqs, saveState, loaded>>

\* handleSave up to its await, sending only what differs from the defaults
HandleSaveSendsDiff ==
    /\ Editable
    /\ ~saving
    /\ saving' = TRUE
    /\ saveReqs' = Append(saveReqs,
                          [settings EXCEPT !.max_capital =
                              IF settings.max_capital = DefaultSettings.max_capital
                              THEN 0 ELSE settings.max_capital])
    /\ saveState' = "pending"
    /\ UNCHANGED <<renderVars,
                   route, dashboardVars, settingsLoading, settings, loadState,
                   loaded, edited>>

\* handleSave up to its await: setSaving(true), updateSettings(settings);
\* the Save button is disabled while saving
HandleSave ==
    /\ Editable
    /\ ~saving
    /\ saving' = TRUE
    /\ saveReqs' = Append(saveReqs, settings)
    /\ saveState' = "pending"
    /\ UNCHANGED <<renderVars,
                   route, dashboardVars, settingsLoading, settings, loadState,
                   loaded, edited>>

\* The sequence q without its i-th element
Without(q, i) == SubSeq(q, 1, i - 1) \o SubSeq(q, i + 1, Len(q))

\* handleSave after its await, for the i-th request in flight:
\* navigate('/dashboard') on success, console.error on failure,
\* setSaving(false) in both cases; draft is the settings state it leaves
SaveResponseResetsDraft(i, ok) ==
    /\ i \in 1..Len(saveReqs)
    /\ saveReqs' = Without(saveReqs, i)
    /\ saveState' = Outcome(ok)
    /\ route' = IF ok THEN "/dashboard" ELSE route
    /\ saving' = FALSE
    /\ settings' = IF ok THEN settings ELSE DefaultSettings
    /\ UNCHANGED <<renderVars,
                   dashboardVars, settingsLoading, loadState, loaded, edited>>

\* handleSave after its await with navigate('/dashboard') moved to finally
SaveResponseAlwaysNavigates(i, ok) ==
    /\ i \in 1..Len(saveReqs)
    /\ saveReqs' = Without(saveReqs, i)
    /\ saveState' = Outcome(ok)
    /\ route' = "/dashboard"
    /\ saving' = FALSE
    /\ UNCHANGED <<renderVars,
                   dashboardVars, settingsLoading, settings, loadState,
                   loaded, edited>>

\* handleSave after its await with setSaving(false) on the success path only
SaveResponseStaysSaving(i, ok) ==
    /\ i \in 1..Len(saveReqs)
    /\ saveReqs' = Without(saveReqs, i)
    /\ saveState' = Outcome(ok)
    /\ route' = IF ok THEN "/dashboard" ELSE route
    /\ saving' = IF ok THEN FALSE ELSE saving
    /\ UNCHANGED <<renderVars, dashboardVars, settingsLoading, settings,
                   loadState, loaded, edited>>

SaveResponse(i, ok) ==
    /\ i \in 1..Len(saveReqs)
    /\ saveReqs' = Without(saveReqs, i)
    /\ saveState' = Outcome(ok)
    /\ route' = IF ok THEN "/dashboard" ELSE route
    /\ saving' = FALSE
    /\ UNCHANGED <<renderVars,
                   dashboardVars, settingsLoading, settings, loadState,
                   loaded, edited>>

\* "Back to Dashboard" / "Cancel": navigate('/dashboard')
LeaveSettings ==
    /\ Editable
    /\ route' = "/dashboard"
    /\ UNCHANGED <<renderVars, dashboardVars, settingsVars>>

LoadAnswered == \E ok \in BOOLEAN, data \in ServerSettings : LoadResponse(ok, data)
MoveSlider == \E v \in SliderValues : SetRiskAppetite(v)
FlipToggle == \E key \in StrategyType, checked \in BOOLEAN : SetStrategyEnabled(key, checked)
TypeCapital == \E text \in CapitalTexts : SetMaxCapital(text)
SaveAnswered == \E i \in 1..Len(saveReqs), ok \in BOOLEAN : SaveResponse(i, ok)

\* The Settings page, opened at /settings
SettingsInit ==
    /\ route = "/settings"
    /\ Constructed
    /\ NotRendered

SettingsNext ==
    \/ LoadSettings
    \/ LoadAnswered
    \/ MoveSlider
    \/ FlipToggle
    \/ TypeCapital
    \/ HandleSave
    \/ SaveAnswered
    \/ LeaveSettings

SettingsSpec == SettingsInit /\ [][SettingsNext]_vars

\* ============================================================ Settings claims
\* C9: when the load has failed, the page does not present the draft (the
\* defaults) as editable and savable settings.
C9_FailedLoadNotEditable == loadState = "fail" => ~Editable

\* C10: a failed save leaves every field of the draft as it was: neither
\* the call of save nor the arrival of its failure response changes the
\* settings state.
C10_SaveKeepsDraft ==
    [][(saveReqs' # saveReqs /\ saveState' # "ok") => settings' = settings]_vars

\* C10 witness: the save of an edited draft has just failed.
C10_Witness ==
    /\ Editable
    /\ saveState = "fail"
    /\ saveReqs = << >>
    /\ ~saving
    /\ settings.max_capital = 250
    /\ settings.risk_appetite = 66

\* C11: save transmits the whole current draft: the body of every request
\* sent by save equals the draft, field by field; and when the load has
\* succeeded and no input was changed since, that body equals the values the
\* load returned.
C11_SaveSendsWholeDraft ==
    [][Len(saveReqs') > Len(saveReqs)
       => /\ saveReqs' = Append(saveReqs, settings)
          /\ DOMAIN saveReqs'[Len(saveReqs')] =
                {"risk_appetite", "strategies_enabled", "max_capital"}
          /\ (loadState = "ok" /\ ~edited)
                => /\ saveReqs'[Len(saveReqs')].risk_appetite = loaded.risk_appetite
                   /\ saveReqs'[Len(saveReqs')].strategies_enabled = loaded.strategies_enabled
                   /\ saveReqs'[Len(saveReqs')].max_capital = loaded.max_capital]_vars

\* C11 witness: after a successful load that returned other values than the
\* defaults, save was called with no change in between and its request is
\* in flight.
C11_Witness ==
    /\ loadState = "ok"
    /\ loaded # DefaultSettings
    /\ ~edited
    /\ saveReqs = <<loaded>>

\* The fields of the draft in which drafts a and b differ
ChangedFields(a, b) ==
    {f \in {"risk_appetite", "strategies_enabled", "max_capital"} : a[f] # b[f]}

\* C12: a draft mutation issues no network request and changes only the
\* addressed field of the draft: every step that changes the draft, other
\* than the arrival of the load response, sends nothing, changes one field,
\* and when that field is strategies_enabled changes one flag of the four.
C12_MutationIsLocal ==
    [][(settings' # settings /\ loadState' = loadState)
       => /\ edited'
          /\ UNCHANGED <<route, saving, settingsLoading, saveReqs, saveState,
                         loaded, dashboardVars>>
          /\ Cardinality(ChangedFields(settings, settings')) = 1
          /\ Cardinality({k \in StrategyType :
                             settings'.strategies_enabled[k]
                                 # settings.strategies_enabled[k]}) <= 1]_vars

\* C12 witness: after a successful load one flag was switched on and nothing
\* else differs from the loaded values; nothing was sent.
C12_Witness ==
    /\ loadState = "ok"
    /\ edited
    /\ settings.strategies_enabled["oracle"]
    /\ ~loaded.strategies_enabled["oracle"]
    /\ settings = [loaded EXCEPT !.strategies_enabled["oracle"] = TRUE]
    /\ saveReqs = << >>
    /\ saveState = "none"

\* The BotSettings invariant of a draft or request body b
BotSettingsOk(b) ==
    /\ b.risk_appetite \in 0..100
    /\ DOMAIN b.strategies_enabled = StrategyType
    /\ b.max_capital >= 0

\* C13: the server's settings satisfying the BotSettings invariant, the
\* draft satisfies it after any sequence of load and mutation operations,
\* and so does every body sent by save: risk_appetite in [0,1], all four
\* strategy keys present, max_capital >= 0.
C13_DraftInvariant ==
    /\ \A d \in ServerSettings : BotSettingsOk(d)
    /\ BotSettingsOk(settings)
    /\ \A i \in 1..Len(saveReqs) : BotSettingsOk(saveReqs[i])

\* C14: the session signals completion (save navigates to the dashboard)
\* if and only if the save request succeeded: the step that delivers a save
\* response ends on /dashboard when the save succeeded and leaves the route
\* as it was when the save failed.
C14_CompletionIffSaved ==
    [][Len(saveReqs') < Len(saveReqs)
       => /\ saveState' \in {"ok", "fail"}
          /\ saveState' = "ok" => route' = "/dashboard"
          /\ saveState' = "fail" => route' = route]_vars

\* C14 witness: a save has succeeded from the Settings page and the route is
\* the dashboard.
C14_Witness ==
    /\ saveState = "ok"
    /\ saveReqs = << >>
    /\ route = "/dashboard"
    /\ edited

\* ========================================================= TopOpportunities
\* A number | undefined; numbers are held in hundredths
Undefined == [def |-> FALSE, v |-> 0]
Num(x) == [def |-> TRUE, v |-> x]

\* Values annualized_return and edge_pct may hold.  Those with a 5 in the
\* hundredths are multiples of 0.25, which a double holds exactly, so that
\* toFixed(1) sees a true tie.
ReturnValues ==
    {Undefined, Num(0), Num(25), Num(75), Num(1250), Num(1234), Num(0 - 775),
     Num(10010)}

\* a || b for a: number | undefined: b when a is undefined or 0
OrElse(a, b) == IF ~a.def \/ a.v = 0 THEN b ELSE a

\* x.toFixed(1) for x in hundredths: round half up on the magnitude, one
\* fraction digit, "-" before a negative x
ToFixed1(x) ==
    LET a == IF x < 0 THEN 0 - x ELSE x
        n == (a + 5) \div 10
        text == ToString(n \div 10) \o "." \o ToString(n % 10)
    IN  IF x < 0 THEN "-" \o text ELSE text

\* formatReturn(value)
FormatReturn(value) ==
    IF ~value.def THEN "N/A" ELSE ToFixed1(value.v) \o "%"

\* A row of TopOpportunities: formatReturn(o.annualized_return || o.edge_pct)
RenderReturn ==
    /\ shownReturn = NULL
    /\ shownReturn' = FormatReturn(OrElse(opp.annualized_return, opp.edge_pct))
    /\ UNCHANGED <<route, dashboardVars, settingsVars, riskValue, riskLabel, opp,
                   chartValue, chartDraws, chartData>>

\* The Dashboard with one opportunity to render
ReturnInit ==
    /\ route = "/dashboard"
    /\ Constructed
    /\ opp \in [annualized_return : ReturnValues, edge_pct : ReturnValues]
    /\ riskValue = 0
    /\ riskLabel = NULL
    /\ shownReturn = NULL
    /\ chartValue = 0
    /\ chartDraws = << >>
    /\ chartData = << >>

ReturnNext == RenderReturn

ReturnSpec == ReturnInit /\ [][ReturnNext]_vars

\* C16: the displayed return follows the fallback chain: the formatted
\* annualized_return whenever it is present (0 included), otherwise the
\* formatted edge_pct, and "N/A" only when neither is available.
C16_ReturnFallbackChain ==
    shownReturn # NULL
    => shownReturn =
         IF opp.annualized_return.def
         THEN ToFixed1(opp.annualized_return.v) \o "%"
         ELSE IF opp.edge_pct.def
              THEN ToFixed1(opp.edge_pct.v) \o "%"
              ELSE "N/A"

\* =========================================================== PortfolioChart
\* const points = 24
Points == 24

\* portfolio.total_value, in thousandths (all >= 0)
ChartValues == {0, 1005, 100000, 123456, 999999}

\* Results of Math.random(), in thousandths, within [0, 1)
DrawValues == {0, 123, 450, 999}

\* The sequences of Math.random() results tried: one per call of the loop,
\* repeating a pattern of at most MaxPattern values
DrawSeqs ==
    {[i \in 1..Points |-> p[((i - 1) % Len(p)) + 1]] :
        p \in UNION {[1..n -> DrawValues] : n \in 1..MaxPattern}}

\* i.toString().padStart(2, '0') + ':00'
Hour(i) == (IF i < 10 THEN "0" \o ToString(i) ELSE ToString(i)) \o ":00"

\* Math.round(value * 100) / 100 for a value held in units of 10^-5:
\* Math.round rounds half towards +infinity
Round2(value) == ((value + 500) \div 1000) * 1000

\* The for loop of generateMockData from iteration i on; value and the
\* values of data are held in units of 10^-5
RECURSIVE MockLoop(_, _, _, _)
MockLoop(i, value, data, draws) ==
    IF i >= Points
    THEN data
    ELSE MockLoop(i + 1,
                  value + (draws[i + 1] - 450) * 1000,
                  Append(data, [time |-> Hour(i), value |-> Round2(value)]),
                  draws)

\* generateMockData without the assignment to the last point
GenerateMockDataNoPin(currentValue, draws) ==
    MockLoop(0, currentValue * 95, << >>, draws)

\* generateMockData(currentValue), currentValue in thousandths
GenerateMockData(currentValue, draws) ==
    LET data == MockLoop(0, currentValue * 95, << >>, draws)
    IN  [data EXCEPT ![Len(data)].value = currentValue * 100]

\* PortfolioChart with no chartData: data = generateMockData(total_value)
RenderChart ==
    /\ chartData = << >>
    /\ chartData' = GenerateMockData(chartValue, chartDraws)
    /\ UNCHANGED <<route, dashboardVars, settingsVars, riskValue, riskLabel, opp,
                   shownReturn, chartValue, chartDraws>>

\* The Dashboard with a portfolio value to chart
ChartInit ==
    /\ route = "/dashboard"
    /\ Constructed
    /\ chartValue \in ChartValues
    /\ chartDraws \in DrawSeqs
    /\ chartData = << >>
    /\ riskValue = 0
    /\ riskLabel = NULL
    /\ opp = NULL
    /\ shownReturn = NULL

ChartNext == RenderChart

ChartSpec == ChartInit /\ [][ChartNext]_vars

\* The hour tags "00:00" .. "23:00"
HourTags ==
    <<"00:00", "01:00", "02:00", "03:00", "04:00", "05:00", "06:00", "07:00",
      "08:00", "09:00", "10:00", "11:00", "12:00", "13:00", "14:00", "15:00",
      "16:00", "17:00", "18:00", "19:00", "20:00", "21:00", "22:00", "23:00">>

\* C17: the synthetic series has exactly 24 entries, its last value is the
\* current value exactly, every other value is rounded to 2 decimals, and
\* its labels are the ascending hour tags "00:00" .. "23:00".
C17_SyntheticSeries ==
    chartData # << >>
    => /\ Len(chartData) = 24
       /\ chartData[24].value = chartValue * 100
       /\ \A i \in 1..23 : chartData[i].value % 1000 = 0
       /\ [i \in 1..24 |-> chartData[i].time] = HourTags

\* C17 witness: a series was generated for a value with three decimals; its
\* last value is no multiple of 0.01, its first was changed by the rounding,
\* and the random walk went below zero on the way.
C17_Witness ==
    /\ chartData # << >>
    /\ chartValue = 1005
    /\ chartData[24].value % 1000 # 0
    /\ chartData[1].value # chartValue * 95
    /\ \E i \in 1..23 : chartData[i].value < 0

\* ============================================================ getRiskLabel
\* The values of risk_appetite the label is rendered for, in hundredths:
\* every position of the slider (min 0, max 100, step 1)
RiskValues == 0..100

\* getRiskLabel with closed lower bands
GetRiskLabelClosed(value) ==
    IF value <= 33 THEN "Conservative"
    ELSE IF value <= 66 THEN "Balanced"
    ELSE "Aggressive"

\* getRiskLabel(value), value in hundredths (0.33 is 33, 0.66 is 66)
GetRiskLabel(value) ==
    IF value < 33 THEN "Conservative"
    ELSE IF value < 66 THEN "Balanced"
    ELSE "Aggressive"

\* The label beside the slider: {getRiskLabel(settings.risk_appetite)}
RenderRiskLabel ==
    /\ riskLabel = NULL
    /\ riskLabel' = GetRiskLabel(riskValue)
    /\ UNCHANGED <<route, dashboardVars, settingsVars, riskValue, opp,
                   shownReturn, chartValue, chartDraws, chartData>>

\* The Settings page with a risk appetite to label
RiskInit ==
    /\ route = "/settings"
    /\ Constructed
    /\ riskValue \in RiskValues
    /\ riskLabel = NULL
    /\ opp = NULL
    /\ shownReturn = NULL
    /\ chartValue = 0
    /\ chartDraws = << >>
    /\ chartData = << >>

RiskNext == RenderRiskLabel

RiskSpec == RiskInit /\ [][RiskNext]_vars

\* C18: riskLabel is total with half-open bands: r < 0.33 gives
\* "Conservative", 0.33 <= r < 0.66 gives "Balanced", r >= 0.66 gives
\* "Aggressive"; 0.33 and 0.66 fall in the upper band.
C18_RiskLabelBands ==
    riskLabel # NULL
    => /\ riskLabel \in {"Conservative", "Balanced", "Aggressive"}
       /\ riskLabel = "Conservative" <=> riskValue < 33
       /\ riskLabel = "Balanced" <=> (33 <= riskValue /\ riskValue < 66)
       /\ riskLabel = "Aggressive" <=> riskValue >= 66
       /\ riskValue = 0 => riskLabel = "Conservative"
       /\ riskValue = 33 => riskLabel = "Balanced"
       /\ riskValue = 66 => riskLabel = "Aggressive"
       /\ riskValue = 100 => riskLabel = "Aggressive"

\* C18 witness: the label was rendered for the boundary value 0.66.
C18_Witness ==
    /\ riskValue = 66
    /\ riskLabel = "Aggressive"

\* C22: the saving flag is true exactly while a save request is outstanding
\* and is false again after the response, success or failure; at most one
\* save request is outstanding at any time; and after a failed save the
\* save action is enabled again.
C22_SingleSaveInFlight ==
    /\ [](saving <=> saveReqs # << >>)
    /\ [](Len(saveReqs) <= 1)
    /\ [][Len(saveReqs') < Len(saveReqs)
          => saveState' \in {"ok", "fail"} /\ ~saving']_vars
    /\ []((Editable /\ saveState = "fail") => (~saving /\ ENABLED HandleSave))

\* C22 witness: the save of the loaded draft has failed; the flag is false
\* again, nothing is outstanding and the form can still be used.
C22_Witness ==
    /\ Editable
    /\ loadState = "ok"
    /\ ~edited
    /\ saveState = "fail"
    /\ ~saving
    /\ saveReqs = << >>

\* C23: load never overwrites user input: the draft is changed by an input,
\* and a save is sent, only once the load has completed and the loading
\* flag is false; the load is issued once; so the load response is applied
\* to the draft as constructed, which no input has changed.
C23_LoadBeforeInput ==
    /\ []((edited \/ saveReqs # << >> \/ saveState # "none")
            => (loadState \in {"ok", "fail"} /\ ~settingsLoading))
    /\ [][loadState' # loadState
          => \/ loadState = "none" /\ loadState' = "pending"
             \/ /\ loadState = "pending" /\ loadState' \in {"ok", "fail"}
                /\ ~edited
                /\ settings = DefaultSettings]_vars
    /\ [][(edited' /\ ~edited) => ~settingsLoading]_vars

\* C23 witness: after the load returned, the slider was moved and the draft
\* sent by save; the draft is the user's, not the loaded one.
C23_Witness ==
    /\ loadState = "ok"
    /\ edited
    /\ loaded.risk_appetite = 30
    /\ settings.risk_appetite = 66
    /\ saveState = "pending"
    /\ saveReqs = <<settings>>

====
